---- MODULE Spec2Model ----
(***************************************************************************)
(* Model of lib/server.js of eonc-rest: the connect-style dispatcher.      *)
(*                                                                         *)
(*   use(route, fn)        registers a layer on a server's stack           *)
(*   handle(req, res, out) walks the stack; its closure next(err) restores *)
(*                         the url, matches the next layer, trims the url  *)
(*                         and calls the layer through call()              *)
(*   call(...)             invokes a handle by arity and error mode        *)
(*                                                                         *)
(* Strings are sequences of one-character strings, so that substr,         *)
(* toLowerCase, indexOf and concatenation are computed as JavaScript       *)
(* computes them.                                                          *)
(***************************************************************************)
EXTENDS Integers, Sequences, FiniteSets, TLC

(***************************************************************************)
(* JavaScript string primitives used by server.js                          *)
(***************************************************************************)

\* String.prototype.toLowerCase on one character
LowerChar(c) ==
    CASE c = "A" -> "a"
      [] c = "B" -> "b"
      [] c = "D" -> "d"
      [] c = "M" -> "m"
      [] c = "I" -> "i"
      [] c = "N" -> "n"
      [] OTHER -> c

\* String.prototype.toLowerCase
toLowerCase(s) == [i \in 1..Len(s) |-> LowerChar(s[i])]

\* s.substr(start): the characters from 0-based index start to the end
substrFrom(s, start) ==
    IF start >= Len(s) THEN <<>> ELSE SubSeq(s, start + 1, Len(s))

\* s.substr(0, n): the first n characters (a negative n gives '')
substrTo(s, n) ==
    IF n <= 0 THEN <<>> ELSE SubSeq(s, 1, IF n < Len(s) THEN n ELSE Len(s))

\* s[i] with a 0-based index; "undefined" past the end
charAt(s, i) == IF i >= 0 /\ i < Len(s) THEN s[i + 1] ELSE "undefined"

\* s.indexOf(pat, from): 0-based index of the first occurrence at or after
\* from, -1 when there is none
indexOf(s, pat, from) ==
    LET hits == {i \in from..(Len(s) - Len(pat)) :
                    SubSeq(s, i + 1, i + Len(pat)) = pat}
    IN  IF hits = {} THEN -1
        ELSE CHOOSE i \in hits : \A j \in hits : i <= j

(***************************************************************************)
(* JavaScript values that reach use() and next(): strings, plain           *)
(* functions (with their declared parameter count), servers made by        *)
(* createServer, the wrapper closure use() builds around a server, and     *)
(* undefined.  Error values are opaque; only their truthiness is read.     *)
(***************************************************************************)

Str(chars) == [t |-> "string", v |-> chars, length |-> Len(chars), name |-> ""]
Fn(name, n) == [t |-> "function", v |-> <<>>, length |-> n, name |-> name]
Srv(id) == [t |-> "server", v |-> <<>>, length |-> 3, name |-> id]
Wrapper(id) == [t |-> "wrapper", v |-> <<>>, length |-> 3, name |-> id]
UndefinedValue == [t |-> "undefined", v |-> <<>>, length |-> 0, name |-> ""]

\* the values a handler passes to next() or throws: undefined (no argument),
\* a falsy value (0), and two distinct truthy error objects
Undefined == "undefined"
ErrorValues == {"undefined", "0", "E1", "E2"}

\* what the handlers here pass to next(), and what they throw
NextValues == {"undefined", "E1", "E2"}
ThrowValues == {"0", "E1", "E2"}

\* Boolean(err)
Boolean(err) == err \notin {"undefined", "0"}

\* truthiness of a string-or-undefined value such as this.fullRoute
Truthy(jv) == \/ jv.t = "string" /\ jv.v # <<>>
              \/ jv.t \in {"function", "server", "wrapper"}

\* the + operator with a string on the left: the right operand is converted
\* to a string; the source text of a function is written as one token
Concat(a, b) ==
    Str(a.v \o (IF b.t = "string" THEN b.v ELSE <<"function(){}">>))

(***************************************************************************)
(* getProtohost(url)                                                       *)
(***************************************************************************)

\* undefined is returned as '' because the only caller applies || ''
getProtohost(url) ==
    IF Len(url) = 0 \/ url[1] = "/" THEN <<>>
    ELSE LET searchIndex == indexOf(url, <<"?">>, 0)
             pathLength == IF searchIndex # -1 THEN searchIndex ELSE Len(url)
             fqdnIndex == indexOf(substrTo(url, pathLength), <<":", "/", "/">>, 0)
         IN  IF fqdnIndex # -1
             THEN substrTo(url, indexOf(url, <<"/">>, 3 + fqdnIndex))
             ELSE <<>>

\* parseUrl(req).pathname || '/': the url up to the query string; for an
\* absolute-form url (scheme://host...) the part from the first '/' after
\* the host, '/' when the host is followed by no path
pathname(url) ==
    LET q == indexOf(url, <<"?">>, 0)
        noQuery == IF q = -1 THEN url ELSE substrTo(url, q)
        scheme == indexOf(noQuery, <<":", "/", "/">>, 0)
        slash == indexOf(noQuery, <<"/">>, 3 + scheme)
        p == IF Len(url) > 0 /\ url[1] # "/" /\ scheme # -1
             THEN (IF slash = -1 THEN <<>> ELSE substrFrom(noQuery, slash))
             ELSE noQuery
    IN  IF p = <<>> THEN <<"/">> ELSE p

(***************************************************************************)
(* State                                                                   *)
(***************************************************************************)

VARIABLES
    server,     \* server[id]: route, fullRoute, owner and stack of a Server
    plan,       \* the use() calls the configuration code will make
    pc,         \* how many of them have been made
    req,        \* req[r]: url and originalUrl of request r
    frames,     \* one entry per call of handle(): its closure variables
    acts,       \* one entry per handler invocation made by call()
    callstack,  \* the invocations that have not returned yet, innermost last
    deferred,   \* the tasks queued by defer(), oldest first
    done,       \* done[r]: the calls of the top-level out callback
    ev,         \* what the last step did: its trigger and the engine's trace
    hist        \* the values passed to continuations, where a run records them

vars == <<server, plan, pc, req, frames, acts, callstack, deferred, done, ev,
          hist>>

Servers == {"app", "sub", "leaf"}

\* the out of a top-level handle(): the terminal callback (finalhandler)
TopOut == 0

\* one entry of ev.trace
Event(t, f, index, url, err) ==
    [t |-> t, f |-> f, index |-> index, url |-> url, err |-> err]

\* the part of the state that handle, next and call can reach: the servers
\* (this.stack), the request and the closures
Machine ==
    [server |-> server, req |-> req, frames |-> frames, acts |-> acts,
     callstack |-> callstack, deferred |-> deferred, done |-> done,
     trace |-> <<>>]

Log(s, e) == [s EXCEPT !.trace = Append(@, e)]

(***************************************************************************)
(* createServer and use                                                    *)
(***************************************************************************)

createServer ==
    [route |-> <<"/">>, fullRoute |-> UndefinedValue, owner |-> "",
     stack |-> <<>>]

\* a push that puts the layer in front
unshift(stack, layer) == <<layer>> \o stack

\* this.stack.push(layer)
push(stack, layer) == Append(stack, layer)

\* this.use(route, fn).  The http.Server and Endpoint branches need classes
\* that live outside server.js; no such handle is registered here.
use(srv, this, route, fn) ==
    LET fullRoute == IF Truthy(srv[this].fullRoute)
                     THEN Concat(srv[this].fullRoute, route)
                     ELSE route
        isString == route.t = "string"
        lhandle0 == IF isString THEN fn ELSE route
        lpath0 == IF isString THEN route.v ELSE <<"/">>
        isApp == lhandle0.t = "server"
        lhandle == IF isApp THEN Wrapper(lhandle0.name) ELSE lhandle0
        lpath == IF charAt(lpath0, Len(lpath0) - 1) = "/"
                 THEN substrTo(lpath0, Len(lpath0) - 1)
                 ELSE lpath0
        srv1 == IF isApp
                THEN [srv EXCEPT ![lhandle0.name].route = lpath0,
                                 ![lhandle0.name].fullRoute = fullRoute,
                                 ![lhandle0.name].owner = this]
                ELSE srv
    IN  [srv1 EXCEPT ![this].stack =
            push(@, [route |-> lpath, handle |-> lhandle])]

(***************************************************************************)
(* handle, next and call                                                   *)
(***************************************************************************)

RECURSIVE next(_, _, _)
RECURSIVE call(_, _, _, _)
RECURSIVE handle(_, _, _, _)

\* done(err) run by the scheduler: the top-level out callback, or the next
\* of the frame that entered this server
runDone(s, from, err) ==
    LET fr == s.frames[from]
    IN  IF fr.out = TopOut
        THEN Log([s EXCEPT !.done[fr.req] = Append(@, err)],
                 Event("done", from, fr.index, s.req[fr.req].url, err))
        ELSE next(s, fr.out, err)

\* a defer that calls done(err) at once, inside the caller's stack
deferNow(s, from, err) == runDone(s, from, err)

\* a defer that schedules done(err) twice
deferTwice(s, from, err) ==
    [s EXCEPT !.frames[from].exits = @ + 1,
              !.deferred = @ \o << [from |-> from, err |-> err,
                                    nth |-> s.frames[from].exits + 1],
                                   [from |-> from, err |-> err,
                                    nth |-> s.frames[from].exits + 1] >>]

\* a defer that schedules done without its argument
deferWithoutError(s, from, err) ==
    [s EXCEPT !.frames[from].exits = @ + 1,
              !.deferred = Append(@, [from |-> from, err |-> Undefined,
                                      nth |-> s.frames[from].exits + 1])]

\* a defer at an exhaustion that also empties the stack it has walked
deferAndClear(s, from, err) ==
    [s EXCEPT !.frames[from].exits = @ + 1,
              !.deferred = Append(@, [from |-> from, err |-> err,
                                      nth |-> s.frames[from].exits + 1]),
              !.server[s.frames[from].app].stack = <<>>]

\* a defer that loses the task
deferLost(s, from, err) == [s EXCEPT !.frames[from].exits = @ + 1]

\* defer(done, err): setImmediate(done, err).  from names the frame whose
\* done is scheduled (history only: no code reads it);
\* nth counts the exhaustions of that frame.
defer(s, from, err) ==
    [s EXCEPT !.frames[from].exits = @ + 1,
              !.deferred = Append(@, [from |-> from, err |-> err,
                                      nth |-> s.frames[from].exits + 1])]

\* lines 158-166: undo the synthesized slash, put the removed route back
restoreUrl(fr, url) ==
    LET url1 == IF fr.slashAdded THEN substrFrom(url, 1) ELSE url
    IN  IF Len(fr.removed) # 0
        THEN fr.protohost \o fr.removed \o substrFrom(url1, Len(fr.protohost))
        ELSE url1

\* line 182: the route is a prefix of the path, ignoring case
routeMatches(path, route) ==
    substrTo(toLowerCase(path), Len(route)) = toLowerCase(route)

\* a border test that lets every prefix match through
borderMatchesAnything(path, route) == TRUE

\* lines 187-188: the match borders "/", "." or the end
borderMatches(path, route) ==
    LET c == charAt(path, Len(route))
    IN  ~(c # "undefined" /\ "/" # c /\ "." # c)

\* line 193: is anything trimmed for this route
trims(route) == Len(route) # 0 /\ route # <<"/">>

\* line 195: the url without the part that matches the route
trimUrl(protohost, url, route) ==
    protohost \o substrFrom(url, Len(protohost) + Len(route))

\* line 198: must a leading slash be added
needsSlash(protohost, url) == Len(protohost) = 0 /\ charAt(url, 0) # "/"

next(s, f, err) ==
    LET fr == s.frames[f]
        r == fr.req
        url == restoreUrl(fr, s.req[r].url)
        stack == s.server[fr.app].stack
        index == fr.index
        s1 == Log([s EXCEPT !.req[r].url = url,
                            !.frames[f].slashAdded = FALSE,
                            !.frames[f].removed = <<>>,
                            !.frames[f].index = index + 1],
                  Event("next", f, index, url, err))
    IN  IF index >= Len(stack)
        THEN defer(Log(s1, Event("defer", f, index, url, err)), f, err)
        ELSE
            LET route == stack[index + 1].route
                path == pathname(url)
            IN  IF ~routeMatches(path, route)
                THEN next(Log(s1, Event("skip", f, index, url, err)), f, err)
                ELSE IF ~borderMatches(path, route)
                THEN next(Log(s1, Event("skip", f, index, url, err)), f, err)
                ELSE
                    LET url3 == trimUrl(fr.protohost, url, route)
                        add == needsSlash(fr.protohost, url3)
                        s2 == IF trims(route)
                              THEN [s1 EXCEPT
                                      !.frames[f].removed = route,
                                      !.frames[f].slashAdded = add,
                                      !.req[r].url =
                                          IF add THEN <<"/">> \o url3 ELSE url3]
                              ELSE s1
                    IN  call(s2, f, index, err)

\* handle.length || (handle instanceof Endpoint ? 1 : undefined)
arityOf(h) ==
    IF h.length # 0 THEN [defined |-> TRUE, n |-> h.length]
    ELSE [defined |-> FALSE, n |-> 0]

\* hasError && arity === 4
asErrorHandler(h, err) ==
    Boolean(err) /\ arityOf(h).defined /\ arityOf(h).n = 4

\* a call() whose second test forgets the error mode
asRequestHandlerInAnyMode(h, err) ==
    arityOf(h).defined /\ arityOf(h).n < 4

\* !hasError && arity < 4 (undefined < 4 is false)
asRequestHandler(h, err) ==
    ~Boolean(err) /\ arityOf(h).defined /\ arityOf(h).n < 4

\* the handle is entered: the wrapper of a sub-app runs server.handle with
\* the caller's next as out; a plain function starts running user code
invoke(s, f, index, h, withErr, err) ==
    LET r == s.frames[f].req
        url == s.req[r].url
    IN  IF h.t = "wrapper"
        THEN handle(Log(s, Event("enter", f, index, url, err)), h.name, r, f)
        ELSE LET a == [f |-> f, index |-> index, name |-> h.name,
                       withErr |-> withErr, err |-> err, url |-> url,
                       calls |-> 0]
                 s1 == [s EXCEPT !.acts = Append(@, a)]
             IN  Log([s1 EXCEPT !.callstack = Append(@, Len(s1.acts))],
                     Event("invoke", f, index, url, err))

call(s, f, index, err) ==
    LET h == s.server[s.frames[f].app].stack[index + 1].handle
    IN  IF asErrorHandler(h, err) THEN invoke(s, f, index, h, TRUE, err)
        ELSE IF asRequestHandler(h, err) THEN invoke(s, f, index, h, FALSE, err)
        ELSE next(Log(s, Event("pass", f, index, s.req[s.frames[f].req].url, err)),
                  f, err)

\* a catch clause that calls the handle that threw once more
caughtAndRetried(s, f, e) == call(s, f, s.frames[f].index - 1, Undefined)

\* a catch clause that goes on without the error
caughtAndDropped(s, f, e) == next(s, f, Undefined)

\* the catch clause of call: error = e; next(error)
caught(s, f, e) == next(s, f, e)

\* a capture that every frame makes anew
storeUrlAlways(originalUrl, url) == url

\* req.originalUrl || req.url (an unset originalUrl and '' are both falsy)
storeOriginalUrl(originalUrl, url) ==
    IF originalUrl # <<>> THEN originalUrl ELSE url

\* handle(): a frame that takes protohost from the last frame made for the
\* same server, as if protohost belonged to the server
handleSharedProtohost(s, app, r, out) ==
    LET url == s.req[r].url
        earlier == {g \in DOMAIN s.frames : s.frames[g].app = app}
        last == CHOOSE g \in earlier : \A k \in earlier : k <= g
        fr == [req |-> r, app |-> app, index |-> 0,
               protohost |-> IF earlier = {} THEN getProtohost(url)
                             ELSE s.frames[last].protohost,
               removed |-> <<>>,
               slashAdded |-> FALSE, out |-> out,
               entryUrl |-> url,
               mount |-> IF out = TopOut THEN 0 ELSE s.frames[out].index - 1,
               exits |-> 0]
        s1 == [s EXCEPT !.frames = Append(@, fr),
                        !.req[r].originalUrl = storeOriginalUrl(@, url)]
    IN  next(s1, Len(s1.frames), Undefined)

\* handle(): a frame whose cursor starts where the last frame made for the
\* same server stands, as if index belonged to the server
handleSharedIndex(s, app, r, out) ==
    LET url == s.req[r].url
        earlier == {g \in DOMAIN s.frames : s.frames[g].app = app}
        last == CHOOSE g \in earlier : \A k \in earlier : k <= g
        fr == [req |-> r, app |-> app,
               index |-> IF earlier = {} THEN 0 ELSE s.frames[last].index,
               protohost |-> getProtohost(url), removed |-> <<>>,
               slashAdded |-> FALSE, out |-> out,
               entryUrl |-> url,
               mount |-> IF out = TopOut THEN 0 ELSE s.frames[out].index - 1,
               exits |-> 0]
        s1 == [s EXCEPT !.frames = Append(@, fr),
                        !.req[r].originalUrl = storeOriginalUrl(@, url)]
    IN  next(s1, Len(s1.frames), Undefined)

handle(s, app, r, out) ==
    LET url == s.req[r].url
        fr == [req |-> r, app |-> app, index |-> 0,
               protohost |-> getProtohost(url), removed |-> <<>>,
               slashAdded |-> FALSE, out |-> out,
               \* history only: the url at entry, the layer of the caller
               \* that entered this server, the exhaustions so far
               entryUrl |-> url,
               mount |-> IF out = TopOut THEN 0 ELSE s.frames[out].index - 1,
               exits |-> 0]
        s1 == [s EXCEPT !.frames = Append(@, fr),
                        !.req[r].originalUrl = storeOriginalUrl(@, url)]
    IN  next(s1, Len(s1.frames), Undefined)

(***************************************************************************)
(* Configurations and requests that are dispatched                         *)
(***************************************************************************)

\* how many times, in the whole run, a handler invocation that has already
\* entered its continuation (by calling next, or by throwing into the catch
\* clause of call) may enter it once more
MaxRepeats == 1

Root == <<"/">>
Admin == <<"/", "a", "d", "m", "i", "n">>
AdminSlash == <<"/", "a", "d", "m", "i", "n", "/">>
Adm == <<"/", "a", "d", "m">>
RouteA == <<"/", "a">>
RouteAB == <<"/", "a", "/", "b">>
RouteB == <<"/", "b">>

UseCall(this, route, fn) == [this |-> this, route |-> route, fn |-> fn]

\* [A(normal), B(error), C(normal)] all mounted at '/'
PlanABC ==
    << UseCall("app", Str(Root), Fn("A", 3)),
       UseCall("app", Str(Root), Fn("B", 4)),
       UseCall("app", Str(Root), Fn("C", 2)) >>

\* plain functions declaring 1, 0, 2 and 3 parameters around an error
\* handler, no route given
PlanArity ==
    << UseCall("app", Fn("F1", 1), UndefinedValue),
       UseCall("app", Fn("FE", 4), UndefinedValue),
       UseCall("app", Fn("F0", 0), UndefinedValue),
       UseCall("app", Fn("F2", 2), UndefinedValue),
       UseCall("app", Fn("F3", 3), UndefinedValue) >>

\* [{'/', H1}, {'/admin', H2}] followed by a third layer
PlanAdmin ==
    << UseCall("app", Str(Root), Fn("H1", 3)),
       UseCall("app", Str(Admin), Fn("H2", 3)),
       UseCall("app", Fn("H3", 2), UndefinedValue) >>

\* a layer at '/adm' before a layer at '/admin'
PlanAdm ==
    << UseCall("app", Str(Adm), Fn("G1", 3)),
       UseCall("app", Str(AdminSlash), Fn("G2", 3)),
       UseCall("app", Str(Root), Fn("G3", 4)) >>

\* a sub-app mounted at '/a', with its own layers, between parent layers
PlanNested ==
    << UseCall("sub", Str(RouteB), Fn("K1", 3)),
       UseCall("sub", Fn("K2", 4), UndefinedValue),
       UseCall("app", Str(RouteA), Srv("sub")),
       UseCall("app", Str(RouteAB), Fn("P2", 4)),
       UseCall("app", Str(RouteA), Fn("P3", 3)) >>

\* a sub-app with one layer, mounted at '/a' before a layer at root
PlanSubApp ==
    << UseCall("sub", Str(RouteB), Fn("K1", 3)),
       UseCall("app", Str(RouteA), Srv("sub")),
       UseCall("app", Fn("P3", 3), UndefinedValue) >>

\* a single error handler
PlanErrorOnly == << UseCall("app", Fn("E", 4), UndefinedValue) >>

\* nothing registered
PlanEmpty == << >>

Plans == {PlanABC, PlanArity, PlanAdmin, PlanAdm, PlanNested, PlanErrorOnly,
          PlanEmpty}

UrlRoot == <<"/">>
UrlPosts == <<"/", "p", "o", "s", "t", "s">>
UrlAdmin == <<"/", "a", "d", "m", "i", "n">>
UrlAdminSettings == <<"/", "a", "d", "m", "i", "n", "/", "s", "e", "t", "t", "i", "n", "g", "s">>
UrlAdminUpper == <<"/", "A", "D", "M", "I", "N", "/", "s", "e", "t", "t", "i", "n", "g", "s">>
UrlAdminQuery == <<"/", "a", "d", "m", "i", "n", "?", "x">>
UrlAdm == <<"/", "a", "d", "m">>
UrlAdmX == <<"/", "a", "d", "m", "/", "x">>
UrlAdmJson == <<"/", "a", "d", "m", ".", "j", "s", "o", "n">>
UrlAdministration == <<"/", "a", "d", "m", "i", "n", "i", "s", "t", "r", "a", "t", "i", "o", "n">>
UrlABC == <<"/", "a", "/", "b", "/", "c">>
UrlUpperAB == <<"/", "A", "/", "b">>
UrlAbsAdmin == <<"h", "t", "t", "p", ":", "/", "/", "h", "/", "a", "d", "m", "i", "n", "/", "x", "?", "q">>
UrlAbsA == <<"h", "t", "t", "p", ":", "/", "/", "h", "/", "a">>
UrlAbsAdminUpper == <<"h", "t", "t", "p", ":", "/", "/", "h", "/", "A", "D", "M", "I", "N", "/", "x">>

\* the requests sent to each configuration
UrlsFor(p) ==
    CASE p = PlanABC -> {UrlRoot, UrlPosts}
      [] p = PlanArity -> {UrlRoot}
      [] p = PlanAdmin -> {UrlPosts, UrlAdminSettings, UrlAdminUpper,
                           UrlAdminQuery, UrlAbsAdmin, UrlAbsAdminUpper}
      [] p = PlanAdm -> {UrlAdm, UrlAdmX, UrlAdmJson, UrlAdministration,
                         UrlAdmin}
      [] p = PlanNested -> {UrlABC, UrlUpperAB, UrlAbsA, UrlPosts}
      [] p = PlanSubApp -> {UrlABC, UrlPosts}
      [] p = PlanErrorOnly -> {UrlRoot}
      [] OTHER -> {UrlRoot}

Urls == UNION {UrlsFor(p) : p \in Plans}

Requests == {1}

(***************************************************************************)
(* Actions                                                                 *)
(***************************************************************************)

\* the ev.task of a step that ran no deferred task
NoTask == [from |-> 0, err |-> Undefined, nth |-> 0]

Init ==
    /\ server = [id \in Servers |-> createServer]
    /\ plan \in Plans
    /\ pc = 0
    /\ req = [r \in Requests |->
                [url |-> <<>>, originalUrl |-> <<>>, started |-> FALSE]]
    /\ frames = <<>>
    /\ acts = <<>>
    /\ callstack = <<>>
    /\ deferred = <<>>
    /\ done = [r \in Requests |-> <<>>]
    /\ ev = [kind |-> "init", act |-> 0, arg |-> Undefined, depth |-> 0,
             task |-> NoTask, trace |-> <<>>]
    /\ hist = <<>>

\* the state after a step of the engine that started from machine state s
Commit(s, kind, act, arg, task) ==
    /\ server' = s.server
    /\ req' = s.req
    /\ frames' = s.frames
    /\ acts' = s.acts
    /\ callstack' = s.callstack
    /\ deferred' = s.deferred
    /\ done' = s.done
    /\ ev' = [kind |-> kind, act |-> act, arg |-> arg,
              depth |-> Len(callstack), task |-> task, trace |-> s.trace]
    /\ UNCHANGED <<plan, pc>>

\* the configuration code makes its next use() call
Use ==
    /\ pc < Len(plan)
    /\ server' = use(server, plan[pc + 1].this, plan[pc + 1].route,
                     plan[pc + 1].fn)
    /\ pc' = pc + 1
    /\ ev' = [kind |-> "use", act |-> 0, arg |-> Undefined, depth |-> 0,
              task |-> NoTask, trace |-> <<>>]
    /\ UNCHANGED <<plan, req, frames, acts, callstack, deferred, done, hist>>

\* a request arrives: Server(req, res) calls app.handle(req, res, undefined)
Handle(r, url) ==
    /\ pc = Len(plan)
    /\ url \in UrlsFor(plan)
    /\ ~req[r].started
    /\ callstack = <<>>
    /\ LET s0 == [Machine EXCEPT !.req[r] =
                    [url |-> url, originalUrl |-> <<>>, started |-> TRUE]]
       IN  Commit(handle(s0, "app", r, TopOut), "handle", 0, Undefined, NoTask)
    /\ UNCHANGED hist

\* how many continuation entries were repeats so far
Repeats ==
    LET RECURSIVE Sum(_)
        Sum(i) == IF i = 0 THEN 0
                  ELSE Sum(i - 1) + (IF acts[i].calls > 1 THEN acts[i].calls - 1 ELSE 0)
    IN  Sum(Len(acts))

\* may invocation a enter its continuation (again)
MayCall(a) == acts[a].calls = 0 \/ Repeats < MaxRepeats

\* the running handler calls next(v)
HandlerNext(v) ==
    /\ callstack # <<>>
    /\ LET a == callstack[Len(callstack)]
       IN  /\ MayCall(a)
           /\ Commit(next([Machine EXCEPT !.acts[a].calls = @ + 1],
                          acts[a].f, v),
                     "next", a, v, NoTask)
    /\ UNCHANGED hist

\* the running handler throws v: call() catches it and calls next(v)
HandlerThrow(v) ==
    /\ callstack # <<>>
    /\ LET a == callstack[Len(callstack)]
       IN  /\ MayCall(a)
           /\ Commit(caught([Machine EXCEPT
                                !.acts[a].calls = @ + 1,
                                !.callstack = SubSeq(@, 1, Len(@) - 1)],
                            acts[a].f, v),
                     "throw", a, v, NoTask)
    /\ UNCHANGED hist

\* the running handler returns to its caller
HandlerReturn ==
    /\ callstack # <<>>
    /\ Commit([Machine EXCEPT !.callstack = SubSeq(@, 1, Len(@) - 1)],
              "return", callstack[Len(callstack)], Undefined, NoTask)
    /\ UNCHANGED hist

\* a handler that has returned calls next(v) from a later callback
HandlerLater(a, v) ==
    /\ callstack = <<>>
    /\ MayCall(a)
    /\ Commit(next([Machine EXCEPT !.acts[a].calls = @ + 1], acts[a].f, v),
              "later", a, v, NoTask)
    /\ UNCHANGED hist

\* the scheduler runs the oldest deferred task: done(err)
RunDeferred ==
    /\ callstack = <<>>
    /\ deferred # <<>>
    /\ LET d == Head(deferred)
       IN  Commit(runDone([Machine EXCEPT !.deferred = Tail(@)],
                          d.from, d.err),
                  "deferred", 0, d.err, d)
    /\ UNCHANGED hist

Next ==
    \/ Use
    \/ \E r \in DOMAIN req, url \in Urls : Handle(r, url)
    \/ \E v \in NextValues : HandlerNext(v)
    \/ \E v \in ThrowValues : HandlerThrow(v)
    \/ HandlerReturn
    \/ \E a \in DOMAIN acts, v \in NextValues : HandlerLater(a, v)
    \/ RunDeferred

Spec == Init /\ [][Next]_vars

(***************************************************************************)
(* Vocabulary of the properties                                            *)
(***************************************************************************)

\* the handle registered at layer index (0-based) of the server of frame f
HandleOf(f, index) == server[frames[f].app].stack[index + 1].handle

\* the route stored for that layer
RouteOf(f, index) == server[frames[f].app].stack[index + 1].route

\* the positions of the last step's trace with an event of type t
Events(t) == {k \in DOMAIN ev.trace : ev.trace[k].t = t}

\* the last step invoked the function named n
InvokedNow(n) ==
    \E k \in Events("invoke") :
        HandleOf(ev.trace[k].f, ev.trace[k].index).name = n

\* the last step was a continuation entry (next(v), or a throw that call()
\* turned into next(v)) made by an invocation of the function named n
EnteredBy(n) ==
    /\ ev.kind \in {"next", "throw", "later"}
    /\ acts[ev.act].name = n

\* the first such entry of that invocation
FirstEntryBy(n) == EnteredBy(n) /\ acts[ev.act].calls = 1

\* the invocation the last step made, when it made one
LastAct == acts[Len(acts)]

(***************************************************************************)
(* C1: a 4-parameter handle is invoked only while an error is propagated   *)
(* and receives it; a handle with fewer parameters is invoked only while   *)
(* none is.  With [A(normal), B(error), C(normal)] at '/': a request with  *)
(* no error invokes A then C, never B; when A raises e, B is invoked with  *)
(* e, and C only once the error has been cleared.                          *)
(***************************************************************************)
C1_ModeExclusive ==
    /\ \A i \in DOMAIN acts :
          LET a == acts[i]
              h == HandleOf(a.f, a.index)
          IN  /\ h.length = 4 => a.withErr /\ Boolean(a.err)
              /\ h.length < 4 => ~a.withErr /\ ~Boolean(a.err)
    /\ \A k \in Events("invoke") :
          HandleOf(ev.trace[k].f, ev.trace[k].index).length = 4
             => /\ ev.trace[k].err = ev.arg
                /\ LastAct.err = ev.arg
    /\ plan = PlanABC =>
          /\ ev.kind = "handle" => InvokedNow("A")
          /\ FirstEntryBy("A") /\ ~Boolean(ev.arg)
                => InvokedNow("C") /\ ~InvokedNow("B")
          /\ FirstEntryBy("A") /\ Boolean(ev.arg)
                => InvokedNow("B") /\ LastAct.err = ev.arg
          /\ InvokedNow("B") => EnteredBy("A") /\ Boolean(ev.arg)
          /\ InvokedNow("C")
                => (EnteredBy("A") \/ EnteredBy("B")) /\ ~Boolean(ev.arg)

\* A raised, B was invoked and cleared the error, C is invoked
C1_Witness ==
    /\ plan = PlanABC
    /\ InvokedNow("C")
    /\ EnteredBy("B")
    /\ ev.arg = Undefined

(***************************************************************************)
(* C2: for n in {0, 1, 2, 3}, a plain function declaring n parameters      *)
(* whose layer passes the prefix and boundary tests while no error is      *)
(* propagated is invoked, never passed over.                               *)
(***************************************************************************)
C2_EveryArityBelowFourInvoked ==
    \A k \in Events("pass") :
        LET e == ev.trace[k]
            h == HandleOf(e.f, e.index)
        IN  ~(h.t = "function" /\ h.length \in 0..3 /\ ~Boolean(e.err))

(***************************************************************************)
(* C3: whenever the continuation of a frame is entered again, the url the  *)
(* next layer of that frame sees, and the url the terminal continuation    *)
(* sees, is the url the frame saw on entry (no handler here writes the     *)
(* url), also when the letter case of the path differs from the route.     *)
(***************************************************************************)
C3_RestoreRoundTrip ==
    /\ \A k \in Events("next") :
          ev.trace[k].url = frames[ev.trace[k].f].entryUrl
    /\ \A k \in Events("done") :
          ev.trace[k].url = frames[ev.trace[k].f].entryUrl

\* the first Len(m) characters of p are m ignoring case, and p ends there
\* or goes on with '/' or '.'
Selected(p, m) ==
    /\ Len(p) >= Len(m)
    /\ \A i \in 1..Len(m) : LowerChar(p[i]) = LowerChar(m[i])
    /\ Len(p) = Len(m) \/ p[Len(m) + 1] \in {"/", "."}

\* the engine lets path p through to the handle of a layer at route m
Passes(p, m) == routeMatches(p, m) /\ borderMatches(p, m)

\* the examples of the claim, decided by the engine's two tests
PassesExamples ==
    /\ Passes(pathname(UrlAdm), Adm)
    /\ Passes(pathname(UrlAdmX), Adm)
    /\ Passes(pathname(UrlAdmJson), Adm)
    /\ ~Passes(pathname(UrlAdministration), Adm)
    /\ Passes(pathname(UrlAdmin), Admin)
    /\ Passes(pathname(UrlAdminSettings), Admin)
    /\ ~Passes(pathname(UrlRoot), Admin)
    /\ ~Passes(pathname(UrlPosts), Admin)

(***************************************************************************)
(* C4: a layer with mount path m is selected for pathname p exactly when   *)
(* the first len(m) characters of p equal m ignoring case and the          *)
(* character of p after them is absent, '/' or '.'.  '/adm' matches        *)
(* '/adm', '/adm/x' and '/adm.json' but not '/administration'; a handler   *)
(* at '/admin' is invoked for '/admin' and '/admin/settings' but not for   *)
(* '/' or '/posts'.                                                        *)
(***************************************************************************)
C4_PrefixAndBoundary ==
    /\ \A k \in Events("next") :
          LET e == ev.trace[k]
          IN  k < Len(ev.trace) /\ ev.trace[k + 1].t # "defer"
                => (ev.trace[k + 1].t # "skip"
                      <=> Selected(pathname(e.url), RouteOf(e.f, e.index)))
    /\ PassesExamples
    /\ plan = PlanAdmin /\ FirstEntryBy("H1") /\ ~Boolean(ev.arg)
          => (InvokedNow("H2") <=> req[1].originalUrl # UrlPosts)
    /\ plan = PlanAdm /\ ev.kind = "handle"
          => (InvokedNow("G1")
                <=> req[1].originalUrl \notin {UrlAdministration, UrlAdmin})

\* '/adm.json' reached the handle at '/adm' (the match borders '.'), and
\* when that handler passes on, the layer at '/admin' is skipped for it
C4_Witness ==
    /\ plan = PlanAdm
    /\ req[1].originalUrl = UrlAdmJson
    /\ FirstEntryBy("G1")
    /\ Events("skip") # {}

\* nothing is running and nothing is scheduled
Quiescent == callstack = <<>> /\ deferred = <<>>

\* every handler invocation so far entered its continuation at most n times
EachEnteredAtMost(n) == \A i \in DOMAIN acts : acts[i].calls <= n

\* every handler invocation so far has passed control on
EachPassedOn == \A i \in DOMAIN acts : acts[i].calls >= 1

C6_ExhaustionDefers ==
    /\ \A k \in Events("defer") :
          /\ k = Len(ev.trace)
          /\ deferred # <<>>
          /\ deferred[Len(deferred)].from = ev.trace[k].f
    /\ \A k \in Events("done") :
          k = 1 /\ ev.kind = "deferred" /\ ev.depth = 0
    /\ \A k \in Events("next") :
          k > 1 =>
            LET e == ev.trace[k]
                p == ev.trace[k - 1]
            IN  \/ p.f = e.f /\ p.t \in {"skip", "pass"}
                \/ p.t = "enter" /\ frames[e.f].out = p.f /\ e.index = 0
    /\ \A k \in Events("next") :
          k = 1 /\ ev.kind = "deferred"
             => /\ ev.depth = 0
                /\ ev.trace[k].f = frames[ev.task.from].out

\* the scheduler ran the done of an exhausted nested frame: the parent's
\* next is entered from an empty call stack
C6_Witness ==
    /\ ev.kind = "deferred"
    /\ ev.task.from > 1
    /\ ev.trace[1].t = "next"
    /\ ev.trace[1].f = 1

\* what a continuation entry with argument ev.arg does in the last step when
\* the argument is treated as an error: only 4-parameter handles are
\* invoked, each with that value, no sub-app is entered, and an exhaustion
\* schedules done with that value
PropagatedAsError ==
    /\ \A k \in Events("invoke") :
          /\ HandleOf(ev.trace[k].f, ev.trace[k].index).length = 4
          /\ LastAct.withErr
          /\ LastAct.err = ev.arg
    /\ Events("enter") = {}
    /\ \A k \in Events("defer") : deferred[Len(deferred)].err = ev.arg

\* what it does when the argument is not treated as an error: no
\* 4-parameter handle is invoked
PropagatedAsNoError ==
    \A k \in Events("invoke") :
        /\ HandleOf(ev.trace[k].f, ev.trace[k].index).length < 4
        /\ ~LastAct.withErr

(***************************************************************************)
(* C7 as stated: any value v thrown by an invoked handler becomes the      *)
(* propagated error: no normal handler runs until the error is cleared     *)
(* and the next 4-parameter handler, or else done, receives v.             *)
(***************************************************************************)
C7_AnyThrownValuePropagates == ev.kind = "throw" => PropagatedAsError

(***************************************************************************)
(* C7 as amended: a thrown value v that is truthy becomes the propagated   *)
(* error; a thrown falsy value (undefined, null, 0, '', false) is passed   *)
(* on as the continuation's argument but counts as no error, so the next   *)
(* matching normal handler runs.  Either way the engine goes on as if the  *)
(* handler had called next(v).                                             *)
(***************************************************************************)
C7_ThrownTruthyValuePropagates ==
    ev.kind \in {"throw", "next", "later"} =>
        /\ Boolean(ev.arg) => PropagatedAsError
        /\ ~Boolean(ev.arg) => PropagatedAsNoError
        /\ \A k \in DOMAIN ev.trace :
              ev.trace[k].f = ev.trace[1].f => ev.trace[k].err = ev.arg

\* a handler threw a truthy value and an error handler was invoked with it
C7_Witness ==
    /\ ev.kind = "throw"
    /\ Boolean(ev.arg)
    /\ Events("invoke") # {}

\* url u with route m taken off the front of its pathname: the query string
\* is kept, and an origin-form result starts with '/'
TrimmedEntry(u, m) ==
    IF m \in {<<>>, <<"/">>} THEN u
    ELSE LET ph == getProtohost(u)
             body == substrFrom(u, Len(ph) + Len(m))
         IN  IF ph = <<>> /\ charAt(body, 0) # "/"
             THEN <<"/">> \o body
             ELSE ph \o body

(***************************************************************************)
(* C8: the handler of a layer mounted elsewhere than at root sees the      *)
(* entry url of its frame with the mount prefix taken off the pathname,    *)
(* the query string kept and a leading '/' for origin-form targets; the    *)
(* handler of a layer at root sees the entry url unchanged.  With          *)
(* [{'/', H1}, {'/admin', H2}] and '/admin/settings': H1 sees              *)
(* '/admin/settings', H2 sees '/settings', a later layer sees              *)
(* '/admin/settings' again.                                                *)
(***************************************************************************)
C8_TrimOnInvoke ==
    /\ \A i \in DOMAIN acts :
          acts[i].url = TrimmedEntry(frames[acts[i].f].entryUrl,
                                     RouteOf(acts[i].f, acts[i].index))
    /\ plan = PlanAdmin /\ req[1].originalUrl = UrlAdminSettings =>
          \A i \in DOMAIN acts :
              /\ acts[i].name = "H1" => acts[i].url = UrlAdminSettings
              /\ acts[i].name = "H2" => acts[i].url = <<"/", "s", "e", "t", "t", "i", "n", "g", "s">>
              /\ acts[i].name = "H3" => acts[i].url = UrlAdminSettings

(***************************************************************************)
(* C9: a skipped layer (prefix, boundary or arity/mode mismatch) passes    *)
(* on the very error value it was given; an error handler and done         *)
(* receive the value most recently passed to the continuation or thrown;   *)
(* once an error handler calls the continuation with no argument, the      *)
(* matching normal handlers that follow are invoked and the error          *)
(* handlers are skipped.                                                   *)
(***************************************************************************)
C9_ErrorCarriedAndRecovery ==
    /\ \A k \in DOMAIN ev.trace :
          ev.trace[k].err =
              IF ev.trace[k].f = ev.trace[1].f THEN ev.arg ELSE Undefined
    /\ \A k \in Events("invoke") : LastAct.err = ev.trace[k].err
    /\ \A k \in Events("defer") :
          deferred[Len(deferred)].err = ev.trace[k].err
    /\ \A k \in Events("done") :
          done[1][Len(done[1])] = ev.arg
    /\ ev.kind \in {"next", "throw", "later"}
         /\ acts[ev.act].withErr /\ ev.arg = Undefined
          => \A k \in Events("next") :
                LET e == ev.trace[k]
                    h == HandleOf(e.f, e.index)
                IN  k < Len(ev.trace)
                      /\ ev.trace[k + 1].t \notin {"defer", "skip"}
                       => IF h.length = 4
                          THEN ev.trace[k + 1].t = "pass"
                          ELSE ev.trace[k + 1].t \in {"invoke", "enter"}

MaxUses == 2

RouteASlash == <<"/", "a", "/">>
RouteASlashSlash == <<"/", "a", "/", "/">>
SlashSlash == <<"/", "/">>

\* the mount paths given to use()
UseRoutes == {<<>>, Root, RouteA, RouteB, RouteASlash, RouteASlashSlash,
              SlashSlash}

\* the servers that have `id` below them
Above(id) ==
    LET o1 == server[id].owner
        o2 == IF o1 = "" THEN "" ELSE server[o1].owner
    IN  {o1, o2} \ {""}

\* the handles given to use() on server this: a plain function, or a server
\* that is not mounted yet and is neither app, this, nor above this
UseHandles(this) ==
    LET free == {c \in Servers : /\ c \notin {"app", this}
                                  /\ server[c].owner = ""
                                  /\ c \notin Above(this)}
    IN  {Fn("h", 3)} \cup {Srv(c) : c \in free}

InitUse ==
    /\ server = [id \in Servers |-> createServer]
    /\ plan = <<>>
    /\ pc = 0
    /\ req = [r \in Requests |->
                [url |-> <<>>, originalUrl |-> <<>>, started |-> FALSE]]
    /\ frames = <<>>
    /\ acts = <<>>
    /\ callstack = <<>>
    /\ deferred = <<>>
    /\ done = [r \in Requests |-> <<>>]
    /\ ev = [kind |-> "init", act |-> 0, arg |-> Undefined, depth |-> 0,
             task |-> NoTask, trace |-> <<>>]
    /\ hist = <<>>

\* this.use(route, fn); ev.arg is the value of the call: return this
Register(this, route, fn) ==
    /\ pc < MaxUses
    /\ server' = use(server, this, route, fn)
    /\ plan' = Append(plan, UseCall(this, route, fn))
    /\ pc' = pc + 1
    /\ ev' = [kind |-> "use", act |-> 0, arg |-> this, depth |-> 0,
              task |-> NoTask, trace |-> <<>>]
    /\ UNCHANGED <<req, frames, acts, callstack, deferred, done, hist>>

\* use(route, fn) with a string route
RegisterAt ==
    \E this \in Servers, route \in UseRoutes :
        \E fn \in UseHandles(this) : Register(this, Str(route), fn)

\* use(fn): the first argument is the handle
RegisterBare ==
    \E this \in Servers :
        \E fn \in UseHandles(this) : Register(this, fn, UndefinedValue)

NextUse == RegisterAt \/ RegisterBare

SpecUse == InitUse /\ [][NextUse]_vars

\* the use() calls made so far on server id, oldest first
IsCallOn(c, id) == c.this = id
CallsOn(id) ==
    LET RECURSIVE Pick(_)
        Pick(k) == IF k = 0 THEN <<>>
                   ELSE IF IsCallOn(plan[k], id)
                        THEN Append(Pick(k - 1), plan[k])
                        ELSE Pick(k - 1)
    IN  Pick(pc)

\* the engine treats route m as root: nothing is trimmed for it
IsRoot(m) == ~trims(m)

(***************************************************************************)
(* C11: after any sequence of use() calls with string mount paths, no      *)
(* stored route ends in '/' unless it is exactly '/', and a layer          *)
(* registered with an empty or omitted mount path is stored as root.       *)
(***************************************************************************)
C11_NoTrailingSlashStored ==
    \A id \in Servers :
        /\ Len(server[id].stack) = Len(CallsOn(id))
        /\ \A k \in DOMAIN server[id].stack :
              LET m == server[id].stack[k].route
                  c == CallsOn(id)[k]
              IN  /\ m # <<>> /\ m[Len(m)] = "/" => m = <<"/">>
                  /\ c.route.t # "string" \/ c.route.v = <<>> => IsRoot(m)

(***************************************************************************)
(* C12: each use() call appends exactly one layer at the end of the stack  *)
(* of the server it is called on, holding the handle it was given (for a   *)
(* sub-app, the wrapper around it) at the mount path it was given, leaves  *)
(* the layers registered before on every server as they were, and returns  *)
(* the server it was called on, whatever mount paths are already           *)
(* registered; a first argument that is no string is the handle, mounted   *)
(* at root.                                                                *)
(***************************************************************************)
C12_UseAppendsOneLayer ==
    [][pc' = pc + 1 =>
        LET c == plan'[pc']
            given == IF c.route.t = "string" THEN c.fn ELSE c.route
            h == IF given.t = "server" THEN Wrapper(given.name) ELSE given
            old == server[c.this].stack
            new == server'[c.this].stack
            last == new[Len(new)]
        IN  /\ Len(new) = Len(old) + 1
            /\ SubSeq(new, 1, Len(old)) = old
            /\ last.handle = h
            /\ c.route.t = "string" =>
                  last.route \in {c.route.v,
                                  substrTo(c.route.v, Len(c.route.v) - 1)}
            /\ c.route.t # "string" => IsRoot(last.route)
            /\ \A id \in Servers \ {c.this} :
                  server'[id].stack = server[id].stack
            /\ ev'.arg = c.this
    ]_vars

\* two layers were registered on app at the same mount path, the second
\* without any change to the first
C12_Witness ==
    /\ pc = 2
    /\ Len(server["app"].stack) = 2
    /\ server["app"].stack[1].route = RouteA
    /\ server["app"].stack[2].route = RouteA
    /\ server["app"].stack[1].handle = Wrapper("sub")

\* the servers registered as a layer of some server so far
Mounted == {c \in Servers : server[c].owner # ""}

\* the position in the log of the use() call that registered server c
MountCall(c) ==
    CHOOSE k \in 1..pc : \/ plan[k].fn = Srv(c)
                         \/ plan[k].route = Srv(c)

\* the mount path server c was registered under: the string given to use(),
\* '/' when none was given
MountOf(c) ==
    LET r == plan[MountCall(c)].route
    IN  IF r.t = "string" THEN r.v ELSE <<"/">>

\* the mount paths of the servers above c, outermost first, then its own
RECURSIVE FullMountOf(_)
FullMountOf(c) ==
    IF server[c].owner = "" THEN <<>>
    ELSE FullMountOf(server[c].owner) \o MountOf(c)

(***************************************************************************)
(* C13: after any sequence of use() calls that builds a tree of servers,   *)
(* in any order and with or without explicit mount paths, the fullRoute    *)
(* of every registered sub-app is a string, the mount paths of the         *)
(* servers above it followed by its own, and its route is the mount path   *)
(* it was registered under.                                                *)
(***************************************************************************)
C13_FullRouteIsAncestorsPath ==
    \A c \in Mounted :
        /\ server[c].fullRoute.t = "string"
        /\ server[c].fullRoute.v = FullMountOf(c)
        /\ server[c].route = MountOf(c)

\* every sub-app was registered with a string mount path, on a server that
\* was the top of the tree or already registered itself
RegisteredTopDown ==
    \A c \in Mounted :
        /\ plan[MountCall(c)].route.t = "string"
        /\ server[c].owner \in Mounted
              => MountCall(server[c].owner) < MountCall(c)

\* the frames of the top-level handle() calls made for request r
TopFrames(r) ==
    {f \in DOMAIN frames : frames[f].req = r /\ frames[f].out = TopOut}

(***************************************************************************)
(* C14: req.originalUrl is unset until the request is dispatched; the      *)
(* top-level handle() sets it to the url it finds at entry, and from then  *)
(* on, in every state of the traversal (inside nested frames, while the    *)
(* url is trimmed, after it is restored), it is that url.                  *)
(***************************************************************************)
C14_OriginalUrlCapturedOnce ==
    \A r \in DOMAIN req :
        /\ ~req[r].started => req[r].originalUrl = <<>> /\ TopFrames(r) = {}
        /\ req[r].started =>
              /\ TopFrames(r) # {}
              /\ \A f \in TopFrames(r) :
                    req[r].originalUrl = frames[f].entryUrl

\* a nested frame was entered with a trimmed url and one of its handlers
\* is running on a url trimmed once more
C14_Witness ==
    \E i \in DOMAIN acts :
        LET fr == frames[acts[i].f]
        IN  /\ fr.out # TopOut
            /\ fr.entryUrl # req[fr.req].originalUrl
            /\ acts[i].url # fr.entryUrl
            /\ req[fr.req].url = acts[i].url
            /\ callstack = <<i>>

(***************************************************************************)
(* Two requests on one server.  Every handler returns without calling      *)
(* next and calls it later, once, from a callback of its own, so the two   *)
(* traversals interleave in every order.  hist records the value each      *)
(* invocation passed.                                                      *)
(***************************************************************************)

RequestsTwo == {1, 2}

PlansTwo == {PlanAdmin, PlanNested}

\* the requests sent to each configuration
UrlsTwo(p) ==
    CASE p = PlanAdmin -> {UrlAdminSettings, UrlPosts}
      [] p = PlanNested -> {UrlABC, UrlAbsA}
      [] OTHER -> {}

\* what the suspended handlers pass to next()
ResumeValues == {"undefined", "E1"}

InitTwo ==
    /\ server = [id \in Servers |-> createServer]
    /\ plan \in PlansTwo
    /\ pc = 0
    /\ req = [r \in RequestsTwo |->
                [url |-> <<>>, originalUrl |-> <<>>, started |-> FALSE]]
    /\ frames = <<>>
    /\ acts = <<>>
    /\ callstack = <<>>
    /\ deferred = <<>>
    /\ done = [r \in RequestsTwo |-> <<>>]
    /\ ev = [kind |-> "init", act |-> 0, arg |-> Undefined, depth |-> 0,
             task |-> NoTask, trace |-> <<>>]
    /\ hist = <<>>

\* a request arrives while the other may be suspended in a handler
HandleTwo(r, url) ==
    /\ url \in UrlsTwo(plan)
    /\ Handle(r, url)

\* a handler that returned without calling next calls next(v) from a later
\* callback, for the first and only time
Resume(a, v) ==
    /\ callstack = <<>>
    /\ acts[a].calls = 0
    /\ Commit(next([Machine EXCEPT !.acts[a].calls = @ + 1], acts[a].f, v),
              "later", a, v, NoTask)
    /\ hist' = Append(hist, [act |-> a, v |-> v])

NextTwo ==
    \/ Use
    \/ \E r \in DOMAIN req, url \in Urls : HandleTwo(r, url)
    \/ HandlerReturn
    \/ \E a \in DOMAIN acts, v \in ResumeValues : Resume(a, v)
    \/ RunDeferred

SpecTwo == InitTwo /\ [][NextTwo]_vars

\* the invocations made for request r, oldest first
ActsOf(r) ==
    LET RECURSIVE Pick(_)
        Pick(k) == IF k = 0 THEN <<>>
                   ELSE IF frames[acts[k].f].req = r
                        THEN Append(Pick(k - 1), k)
                        ELSE Pick(k - 1)
    IN  Pick(Len(acts))

\* the value invocation a passed to next, "none" while it is suspended
PassedBy(a) ==
    IF \E k \in DOMAIN hist : hist[k].act = a
    THEN hist[CHOOSE k \in DOMAIN hist : hist[k].act = a].v
    ELSE "none"

\* what is seen of invocation a in the frames fs and invocations as: which
\* server's layer, which handler, in which mode, with which error and url
Seen(fs, as, a) ==
    [app |-> fs[as[a].f].app, index |-> as[a].index, name |-> as[a].name,
     withErr |-> as[a].withErr, err |-> as[a].err, url |-> as[a].url]

\* a deferred task of a frame of request r is waiting
Scheduled(r) == \E k \in DOMAIN deferred : frames[deferred[k].from].req = r

\* request r dispatched alone on the same registry with the same url, its
\* handlers passing the values the invocations of r have passed here; the
\* scheduler runs every task as soon as it is queued
Alone(r) ==
    LET ids == ActsOf(r)
        s0 == [server |-> server,
               req |-> [q \in {r} |-> [url |-> req[r].originalUrl,
                                       originalUrl |-> <<>>,
                                       started |-> TRUE]],
               frames |-> <<>>, acts |-> <<>>, callstack |-> <<>>,
               deferred |-> <<>>, done |-> [q \in {r} |-> <<>>],
               trace |-> <<>>]
        RECURSIVE Drain(_)
        Drain(s) ==
            IF s.deferred = <<>> THEN s
            ELSE Drain(runDone([s EXCEPT !.deferred = Tail(@)],
                               Head(s.deferred).from, Head(s.deferred).err))
        RECURSIVE Replay(_, _)
        Replay(s, i) ==
            LET d == Drain(s)
            IN  IF i <= Len(ids) /\ i <= Len(d.acts) /\ acts[ids[i]].calls >= 1
                THEN Replay(next([d EXCEPT !.acts[i].calls = @ + 1,
                                           !.callstack = <<>>],
                                 d.acts[i].f, PassedBy(ids[i])),
                            i + 1)
                ELSE d
    IN  Replay(handle(s0, "app", r, TopOut), 1)

\* the positions of the "next" events of frame f in the last step's trace
NextEvents(f) == {k \in Events("next") : ev.trace[k].f = f}

\* the layers of frame f are examined one after the other from 0: the
\* "next" events of f in the last step carry consecutive indexes, starting
\* at 0 when the step created the frame, and the cursor stands after the last
ExaminedInOrder ==
    \A f \in DOMAIN frames :
        \A k \in NextEvents(f) :
            LET before == {j \in NextEvents(f) : j < k}
                after == {j \in NextEvents(f) : j > k}
                prev == CHOOSE j \in before : \A i \in before : i <= j
            IN  /\ before # {} => ev.trace[k].index = ev.trace[prev].index + 1
                /\ before = {} /\ (k = 1 => ev.kind = "handle")
                               /\ (k > 1 => ev.trace[k - 1].t = "enter")
                      => ev.trace[k].index = 0
                /\ after = {} => frames[f].index = ev.trace[k].index + 1

\* the invocations of one frame are made in registration order
InvokedInOrder ==
    \A i, j \in DOMAIN acts :
        i < j /\ acts[i].f = acts[j].f => acts[i].index < acts[j].index

\* two traversals of the same registry for the same url whose handlers passed
\* the same values so far have invoked the same handlers, in the same order,
\* in the same mode, and delivered the same value to done
SameRunsAgree ==
    \A r1, r2 \in DOMAIN req :
        req[r1].started /\ req[r2].started
          /\ req[r1].originalUrl = req[r2].originalUrl =>
            LET a1 == ActsOf(r1)
                a2 == ActsOf(r2)
                same(n) == \A j \in 1..n : PassedBy(a1[j]) = PassedBy(a2[j])
            IN  /\ \A i \in 1..Len(a1) :
                      i <= Len(a2) /\ same(i - 1)
                         => Seen(frames, acts, a1[i]) = Seen(frames, acts, a2[i])
                /\ Len(a1) = Len(a2) /\ same(Len(a1))
                     /\ done[r1] # <<>> /\ done[r2] # <<>>
                         => done[r1] = done[r2]

(***************************************************************************)
(* C15: within one frame the layers are examined in strictly increasing    *)
(* stack index from 0, so the handlers invoked are a subsequence of the    *)
(* stack in registration order; and for a fixed registry, request url and  *)
(* handler behaviour, two traversals invoke the same handlers in the same  *)
(* order.                                                                  *)
(***************************************************************************)
C15_RegistrationOrderDeterministic ==
    /\ ExaminedInOrder
    /\ InvokedInOrder
    /\ SameRunsAgree

\* both requests asked for '/admin/settings', were interleaved, passed the
\* same values and invoked H1, H2 and H3 each; both traversals have ended
C15_Witness ==
    /\ plan = PlanAdmin
    /\ req[1].originalUrl = UrlAdminSettings
    /\ req[2].originalUrl = UrlAdminSettings
    /\ Len(acts) = 6
    /\ frames[acts[2].f].req # frames[acts[1].f].req
    /\ frames[acts[3].f].req # frames[acts[2].f].req
    /\ done[1] # <<>> /\ done[2] # <<>>

\* url u is an absolute-form target with a path: scheme://host/path, with
\* or without a query string
AbsoluteForm(u) ==
    LET q == indexOf(u, <<"?">>, 0)
        noQuery == IF q = -1 THEN u ELSE substrTo(u, q)
        scheme == indexOf(noQuery, <<":", "/", "/">>, 0)
    IN  /\ Len(u) > 0 /\ u[1] # "/"
        /\ scheme # -1
        /\ indexOf(noQuery, <<"/">>, scheme + 3) # -1

\* the scheme and host of an absolute-form target: what precedes its path
SchemeHost(u) ==
    LET q == indexOf(u, <<"?">>, 0)
        noQuery == IF q = -1 THEN u ELSE substrTo(u, q)
        scheme == indexOf(noQuery, <<":", "/", "/">>, 0)
    IN  substrTo(u, indexOf(noQuery, <<"/">>, scheme + 3))

StartsWith(u, prefix) ==
    Len(u) >= Len(prefix) /\ SubSeq(u, 1, Len(prefix)) = prefix

(***************************************************************************)
(* C16: in a frame entered with an absolute-form target                    *)
(* scheme://host/path?query, protohost is the scheme and host before the   *)
(* path; every url the frame writes when it trims or restores begins with  *)
(* exactly that prefix; and the url it restores is the target it was       *)
(* entered with.                                                           *)
(***************************************************************************)
C16_ProtohostPreserved ==
    /\ \A f \in DOMAIN frames :
          AbsoluteForm(frames[f].entryUrl)
             => frames[f].protohost = SchemeHost(frames[f].entryUrl)
    /\ \A k \in DOMAIN ev.trace :
          LET e == ev.trace[k]
              entry == frames[e.f].entryUrl
          IN  AbsoluteForm(entry) =>
                 /\ StartsWith(e.url, SchemeHost(entry))
                 /\ e.t = "next" => e.url = entry
    /\ \A i \in DOMAIN acts :
          LET entry == frames[acts[i].f].entryUrl
          IN  AbsoluteForm(entry) => StartsWith(acts[i].url, SchemeHost(entry))

\* no layer of a frame has been invoked twice
EachLayerAtMostOnce ==
    \A i, j \in DOMAIN acts :
        i # j /\ acts[i].f = acts[j].f => acts[i].index # acts[j].index

\* no step moves the cursor of a frame back
CursorNeverBack ==
    \A f \in DOMAIN frames : frames'[f].index >= frames[f].index

(***************************************************************************)
(* C17: within one frame each layer is invoked at most once, whatever the  *)
(* handlers do (call next several times, throw after calling next, call    *)
(* next later), and the cursor index of a frame never decreases.           *)
(***************************************************************************)
C17_NoHandlerRetried ==
    /\ []EachLayerAtMostOnce
    /\ [][CursorNeverBack]_vars

\* a handler called next and then threw: the layer after the next one was
\* invoked, three different layers of the frame in all
C17_Witness ==
    /\ ev.kind = "throw"
    /\ acts[ev.act].calls = 2
    /\ Events("invoke") # {}
    /\ Len(acts) = 3
    /\ acts[1].f = acts[3].f /\ acts[2].f = acts[3].f
    /\ acts[1].index < acts[2].index /\ acts[2].index < acts[3].index

(***************************************************************************)
(* Liveness.  The event loop runs every queued task (setImmediate) and a   *)
(* running handler returns (run to completion); that every invoked         *)
(* handler enters its continuation, by calling next or by throwing, is     *)
(* the hypothesis of the termination property.                             *)
(***************************************************************************)

\* RunDeferred can be taken / has just been taken
RunDeferredEnabled == callstack = <<>> /\ deferred # <<>>
RunDeferredTaken == ev'.kind = "deferred"

\* HandlerReturn can be taken / has just been taken
HandlerReturnEnabled == callstack # <<>>
HandlerReturnTaken == ev'.kind = "return"

\* an invocation that has not entered its continuation can do so now (it is
\* running, or it has returned and nothing is running) / has just done so
FirstEntryEnabled ==
    \E a \in DOMAIN acts :
        /\ acts[a].calls = 0
        /\ callstack = <<>> \/ callstack[Len(callstack)] = a
FirstEntryTaken ==
    /\ ev'.kind \in {"next", "throw", "later"}
    /\ acts[ev'.act].calls = 0

\* weak fairness of the three, written with the guards of the actions for
\* ENABLED and with the record of the step for the action: a step that
\* changes the state and leaves ev.kind = "deferred" is a RunDeferred step
FairScheduler == []<>(~RunDeferredEnabled) \/ []<><<RunDeferredTaken>>_vars
FairReturn == []<>(~HandlerReturnEnabled) \/ []<><<HandlerReturnTaken>>_vars
FairFirstEntry == []<>(~FirstEntryEnabled) \/ []<><<FirstEntryTaken>>_vars

\* the configurations whose traversals are followed to their end: layers
\* at root, skipped layers, and a sub-app
PlansLive == {PlanABC, PlanAdm, PlanSubApp, PlanErrorOnly, PlanEmpty}

InitLive ==
    /\ server = [id \in Servers |-> createServer]
    /\ plan \in PlansLive
    /\ pc = 0
    /\ req = [r \in Requests |->
                [url |-> <<>>, originalUrl |-> <<>>, started |-> FALSE]]
    /\ frames = <<>>
    /\ acts = <<>>
    /\ callstack = <<>>
    /\ deferred = <<>>
    /\ done = [r \in Requests |-> <<>>]
    /\ ev = [kind |-> "init", act |-> 0, arg |-> Undefined, depth |-> 0,
             task |-> NoTask, trace |-> <<>>]
    /\ hist = <<>>

SpecLive ==
    /\ InitLive
    /\ [][Next]_vars
    /\ FairScheduler
    /\ FairReturn
    /\ FairFirstEntry

\* the top-level frame of request r has been exhausted
Exhausted(r) == \E f \in TopFrames(r) : frames[f].exits >= 1

\* one run of next() examines each layer of a stack at most once: the chain
\* of skips it makes is no longer than the stack
SkipChainBounded ==
    \A f \in DOMAIN frames :
        Cardinality(NextEvents(f)) <= Len(server[frames[f].app].stack) + 1

(***************************************************************************)
(* C18: when every invoked handler eventually enters its continuation and  *)
(* the scheduler runs every deferred task, a dispatched request            *)
(* eventually exhausts its top-level frame and the terminal callback is    *)
(* eventually called; the chain of skips made by one run of next() ends.   *)
(***************************************************************************)
C18_TraversalTerminates ==
    /\ []SkipChainBounded
    /\ \A r \in Requests :
          req[r].started ~> (Exhausted(r) /\ Len(done[r]) >= 1)

\* the traversal went through a sub-app and two invocations, and the
\* terminal callback has been called
C18_Witness ==
    /\ plan = PlanSubApp
    /\ Len(frames) >= 2
    /\ Len(acts) >= 2
    /\ Exhausted(1)
    /\ Len(done[1]) >= 1

(***************************************************************************)
(* C19: when two requests traverse the same server with their handlers'    *)
(* continuations interleaved in any order, each request has the same       *)
(* handlers invoked, in the same order and mode, with the same errors and  *)
(* urls, and the same value delivered to done, as when it is dispatched    *)
(* alone with handlers that pass the same values: what is done so far is   *)
(* the beginning of the run alone, and all of it once no task of the       *)
(* request is waiting.                                                     *)
(***************************************************************************)
C19_FramesIndependent ==
    \A r \in DOMAIN req :
        req[r].started =>
            LET alone == Alone(r)
                ids == ActsOf(r)
            IN  /\ Len(ids) <= Len(alone.acts)
                /\ \A i \in 1..Len(ids) :
                      Seen(frames, acts, ids[i])
                         = Seen(alone.frames, alone.acts, i)
                /\ Len(done[r]) <= Len(alone.done[r])
                /\ done[r] = SubSeq(alone.done[r], 1, Len(done[r]))
                /\ ~Scheduled(r) =>
                      /\ Len(ids) = Len(alone.acts)
                      /\ done[r] = alone.done[r]
                      /\ req[r].url = alone.req[r].url

\* '/admin/settings' and '/posts' were dispatched to the same server, the
\* second while the first was suspended in the handler at '/admin' on its
\* trimmed url; the invocations alternate and both traversals have ended
C19_Witness ==
    /\ plan = PlanAdmin
    /\ req[1].originalUrl = UrlAdminSettings
    /\ req[2].originalUrl = UrlPosts
    /\ Len(acts) >= 4
    /\ acts[2].name = "H2" /\ frames[acts[2].f].req = 1
    /\ acts[3].name = "H1" /\ frames[acts[3].f].req = 2
    /\ acts[4].name = "H3" /\ frames[acts[4].f].req = 1
    /\ done[1] # <<>> /\ done[2] # <<>>

(***************************************************************************)
(* C20: no step of a dispatch (the handle() call, every entry of a         *)
(* continuation, with its skips, trims and restores, every nested          *)
(* traversal, every deferred done) changes the registry: the stack of      *)
(* every server keeps its length, its order, its routes and its handles.   *)
(***************************************************************************)
C20_DispatchLeavesRegistry ==
    [][ev'.kind # "use" =>
          \A id \in Servers : server'[id].stack = server[id].stack]_vars

\* a traversal that went through the sub-app has ended, and the stacks are
\* the ones the use() calls built
C20_Witness ==
    /\ plan = PlanNested
    /\ Len(frames) >= 2
    /\ done[1] # <<>>
    /\ Len(acts) >= 3
    /\ Len(server["app"].stack) = 3
    /\ Len(server["sub"].stack) = 2
    /\ server["app"].stack[1] = [route |-> RouteA, handle |-> Wrapper("sub")]

====
